---- MODULE Spec2Model ----
(***************************************************************************)
(* Client-side WebSocket opening handshake (websocket_bootstrap.c).        *)
(*                                                                         *)
(* One connection attempt is modelled: the caller invokes                  *)
(* aws_websocket_client_connect once; the HTTP connection service and the  *)
(* handshake stream then deliver their callbacks                           *)
(* (s_ws_bootstrap_on_http_setup, ..._on_handshake_response_headers,       *)
(* ..._on_handshake_complete, ..._on_http_shutdown), serialised on the     *)
(* connection's thread.  Byte strings are sequences of byte values;        *)
(* pointers into a byte buffer are (allocation, offset) pairs so that a    *)
(* pointer into a released allocation can be told from a live one.         *)
(***************************************************************************)
EXTENDS Integers, Sequences, FiniteSets, TLC

(* ------------------------------------------------------------------ *)
(* Bounds of the model                                                *)
(* ------------------------------------------------------------------ *)

\* Largest number of handshake headers the caller passes.
MaxReqHeaders == 2
\* Largest number of response-header callbacks delivered for the stream.
MaxBatches == 2
\* Byte length of the value of the long response header.
BigLen == 400
MaxStreamRefs == 3

(* ------------------------------------------------------------------ *)
(* Program constants                                                  *)
(* ------------------------------------------------------------------ *)

\* Error codes.  Their numeric values come from library headers outside this
\* source tree; the code relies only on their being distinct and non-zero.
AWS_ERROR_OOM == 1
AWS_ERROR_UNKNOWN == 2
AWS_ERROR_INVALID_ARGUMENT == 34
AWS_IO_SOCKET_CLOSED == 1051
AWS_ERROR_HTTP_CONNECTION_CLOSED == 2058
AWS_ERROR_HTTP_WEBSOCKET_UPGRADE_FAILURE == 2060

AWS_HTTP_STATUS_UNKNOWN == -1
AWS_HTTP_STATUS_101_SWITCHING_PROTOCOLS == 101
AWS_HTTP_STATUS_200_OK == 200

\* "just guesses" of aws_websocket_client_connect
estimated_response_headers_extra == 10
estimated_response_header_length == 64

\* The null pointer / absent handle.
NULL == 0

(* ------------------------------------------------------------------ *)
(* Bytes, cursors and the scheme table                                *)
(* ------------------------------------------------------------------ *)

\* n copies of byte b
Rep(b, n) == [i \in 1..n |-> b]

\* ASCII lower-casing of one byte, as used by aws_byte_cursor_eq_ignore_case
ToLower(c) == IF c \in 65..90 THEN c + 32 ELSE c

aws_byte_cursor_eq_ignore_case(a, b) ==
    /\ Len(a) = Len(b)
    /\ \A i \in 1..Len(a) : ToLower(a[i]) = ToLower(b[i])

\* "http", "https", "ws", "wss" as byte strings
s_scheme_ports ==
    << [scheme |-> <<104, 116, 116, 112>>,      port |-> 80],
       [scheme |-> <<104, 116, 116, 112, 115>>, port |-> 443],
       [scheme |-> <<119, 115>>,                port |-> 80],
       [scheme |-> <<119, 115, 115>>,           port |-> 443] >>

RECURSIVE SchemeLookup(_, _)
\* the loop of lines 218-223: first matching table entry from index i on, else 0
SchemeLookup(scheme, i) ==
    IF i > Len(s_scheme_ports) THEN 0
    ELSE IF aws_byte_cursor_eq_ignore_case(scheme, s_scheme_ports[i].scheme)
         THEN s_scheme_ports[i].port
         ELSE SchemeLookup(scheme, i + 1)

\* Variant of InferPort: the scheme table is consulted before the URI's port.
InferPortSchemeFirst(uri, tls_options) ==
    IF SchemeLookup(uri.scheme, 1) # 0 THEN SchemeLookup(uri.scheme, 1)
    ELSE IF uri.port # 0 THEN uri.port
    ELSE IF tls_options THEN 443 ELSE 80

\* Port inference of aws_websocket_client_connect
InferPort(uri, tls_options) ==
    IF uri.port # 0 THEN uri.port
    ELSE IF SchemeLookup(uri.scheme, 1) # 0 THEN SchemeLookup(uri.scheme, 1)
    ELSE IF tls_options THEN 443 ELSE 80

(* ------------------------------------------------------------------ *)
(* Byte buffers (aws_byte_buf) and pointers into them                 *)
(* ------------------------------------------------------------------ *)

\* A buffer that owns no memory (zero-initialised, or cleaned up).
EmptyBuf == [alloc |-> NULL, buffer |-> <<>>, capacity |-> 0]

\* aws_byte_buf_init: a fresh allocation `id` of `capacity` bytes, length 0.
aws_byte_buf_init(id, capacity) == [alloc |-> id, buffer |-> <<>>, capacity |-> capacity]

\* buffer + len: the address one past the bytes written so far.
BufEnd(buf) == [alloc |-> buf.alloc, off |-> Len(buf.buffer)]

\* A cursor whose ptr was taken as `ptr` and whose len is `len`.
Cursor(ptr, len) == [alloc |-> ptr.alloc, off |-> ptr.off, len |-> len]

\* aws_byte_buf_write_from_whole_cursor: never grows; fails when the bytes
\* do not fit in the remaining capacity.
WriteFits(buf, bytes) == buf.capacity - Len(buf.buffer) >= Len(bytes)

aws_byte_buf_write_from_whole_cursor(buf, bytes) ==
    IF WriteFits(buf, bytes) THEN [buf EXCEPT !.buffer = @ \o bytes] ELSE buf

\* aws_byte_buf_append_dynamic needs a larger allocation for these bytes.
NeedsGrowth(buf, bytes) == buf.capacity - Len(buf.buffer) < Len(bytes)

\* Capacity aws_byte_buf_append_dynamic asks for: double, or what is required.
GrownCapacity(buf, bytes) ==
    LET required == Len(buf.buffer) + Len(bytes)
        doubled  == buf.capacity + buf.capacity
    IN  IF required < doubled THEN doubled ELSE required

\* aws_byte_buf_append_dynamic, successful: when the bytes do not fit, the
\* contents move to a new allocation and the old one is released.
aws_byte_buf_append_dynamic(buf, bytes) ==
    IF NeedsGrowth(buf, bytes)
    THEN [alloc    |-> buf.alloc + 1,
          buffer   |-> buf.buffer \o bytes,
          capacity |-> GrownCapacity(buf, bytes)]
    ELSE [buf EXCEPT !.buffer = @ \o bytes]

\* What a read of `cur` sees.  A cursor into the buffer's live allocation
\* sees the bytes stored there.  A cursor into a released allocation is a
\* dangling reference: the read sees the bytes once meant for it when
\* `stale_intact`, and poison bytes (0xFF) otherwise.
ReadCursor(buf, cur, intended, stale_intact) ==
    IF cur.alloc = buf.alloc
    THEN SubSeq(buf.buffer, cur.off + 1, cur.off + cur.len)
    ELSE IF stale_intact THEN intended ELSE Rep(255, cur.len)

(* ------------------------------------------------------------------ *)
(* Inputs                                                             *)
(* ------------------------------------------------------------------ *)

\* The i-th handshake header the caller supplies (name of i bytes, value of
\* i+1 bytes), and the array of the first n of them.
RequestHeader(i) == [name |-> Rep(64 + i, i), value |-> Rep(96 + i, i + 1)]

RequestHeaders(n) == [i \in 1..n |-> RequestHeader(i)]

\* (URI, TLS options present) pairs: "ws://h/" without TLS options,
\* "http://h:9000/c" without, and "x://h/" (unrecognised scheme) with them.
UriInputs ==
    { [uri |-> [scheme |-> <<119, 115>>, port |-> 0, path_and_query |-> <<47>>],
       tls_options |-> FALSE],
      [uri |-> [scheme |-> <<104, 116, 116, 112>>, port |-> 9000,
                path_and_query |-> <<47, 99>>],
       tls_options |-> FALSE],
      [uri |-> [scheme |-> <<120>>, port |-> 0, path_and_query |-> <<47>>],
       tls_options |-> TRUE] }

\* aws_websocket_client_connection_options.  A BOOLEAN field says whether the
\* pointer is non-NULL; `uri` is only read when `has_uri`.
ConnectionOptions ==
    { [allocator                  |-> a,
       bootstrap                  |-> b,
       socket_options             |-> so,
       has_uri                    |-> hu,
       uri                        |-> u.uri,
       tls_options                |-> u.tls_options,
       on_connection_setup        |-> s,
       on_connection_shutdown     |-> sh,
       on_incoming_frame_begin    |-> fb,
       on_incoming_frame_payload  |-> fp,
       on_incoming_frame_complete |-> fc,
       handshake_header_array     |-> ha,
       num_handhake_headers       |-> n] :
      a \in BOOLEAN, b \in BOOLEAN, so \in BOOLEAN, hu \in BOOLEAN, u \in UriInputs,
      s \in BOOLEAN, sh \in BOOLEAN, fb \in BOOLEAN, fp \in BOOLEAN, fc \in BOOLEAN,
      ha \in BOOLEAN, n \in 0..MaxReqHeaders }

\* Non-zero error codes the HTTP connection service and the stream report.
TransportErrors == {AWS_IO_SOCKET_CLOSED, AWS_ERROR_HTTP_CONNECTION_CLOSED}

\* Response status codes the handshake stream reports.
ResponseStatuses == {AWS_HTTP_STATUS_101_SWITCHING_PROTOCOLS, AWS_HTTP_STATUS_200_OK}

\* Response headers arriving off the wire: a short one and a long one.
SmallHeader == [name |-> <<1>>, value |-> <<2>>]

BigHeader == [name |-> <<3>>, value |-> Rep(4, BigLen)]

HeaderBatches == { <<SmallHeader>>, <<BigHeader>>, <<BigHeader, SmallHeader>> }

(* ------------------------------------------------------------------ *)
(* State                                                              *)
(* ------------------------------------------------------------------ *)

VARIABLES
    options,          \* the options of the call to aws_websocket_client_connect
    connect_result,   \* "not_called", or its return value
    last_error,       \* aws_last_error()
    ws_state,         \* "none" | "live" | "destroyed": the bootstrap's memory
    ws_bootstrap,     \* struct aws_websocket_client_bootstrap
    http_connection,  \* the HTTP connection service's side of the connection
    handshake_stream, \* the handshake request's stream
    websocket,        \* handlers installed by aws_websocket_handler_new
    setup_calls,      \* invocations of the user's on_connection_setup, in order
    shutdown_calls,   \* invocations of the user's on_connection_shutdown
    history,          \* bookkeeping: what was delivered and which calls were made
    stream_refs,      \* struct aws_http_stream's refcount and who holds references
    caller_memory     \* "intact" | "reused": the buffers the caller's options point to

vars == << options, connect_result, last_error, ws_state, ws_bootstrap,
           http_connection, handshake_stream, websocket, setup_calls,
           shutdown_calls, history, stream_refs,
           caller_memory >>

\* The bootstrap as aws_mem_calloc returns it: all fields zero.
ZeroBootstrap ==
    [ websocket_setup_callback          |-> FALSE,
      websocket_shutdown_callback       |-> FALSE,
      websocket_frame_begin_callback    |-> FALSE,
      websocket_frame_payload_callback  |-> FALSE,
      websocket_frame_complete_callback |-> FALSE,
      request_path                      |-> [alloc |-> NULL, off |-> 0, len |-> 0],
      request_header_array              |-> <<>>,
      num_request_headers               |-> 0,
      request_storage                   |-> EmptyBuf,
      response_status                   |-> 0,
      response_headers                  |-> <<>>,
      response_headers_capacity         |-> 0,
      response_storage                  |-> EmptyBuf,
      setup_error_code                  |-> 0,
      websocket                         |-> NULL ]

NoConnection ==
    [ state           |-> "none",   \* none | connecting | failed | open | shutdown
      port            |-> 0,
      close_requests  |-> 0,        \* calls of aws_http_connection_close
      releases        |-> 0 ]       \* calls of aws_http_connection_release

NoStream ==
    [ state    |-> "none",          \* none | active | complete
      request  |-> <<>>,            \* the request it was created for
      batches  |-> 0,               \* header callbacks delivered
      releases |-> 0 ]              \* calls of aws_http_stream_release

NoHistory ==
    [ received      |-> <<>>,       \* response headers delivered, in order
      captured      |-> <<>>,       \* the delivered header of each record kept
      setup_errors  |-> <<>>,       \* error code of each HTTP setup notification
      completions   |-> <<>>,       \* error code of each stream completion, and
                                    \* the status read from the stream (if read)
      shutdown_errors |-> <<>>,     \* error code of each HTTP shutdown notification
      cancel_calls  |-> 0,          \* calls of s_ws_bootstrap_cancel_setup_due_to_err
      cancel_errors |-> <<>>,       \* the error code of each, in order
      destroys      |-> 0,          \* calls of s_ws_bootstrap_destroy on a bootstrap
      last_handler  |-> "none" ]    \* the handler that ran last

\* Threads that may hold references to one stream.
StreamHolders == {"bootstrap", "connection", "user"}

\* struct aws_http_stream as its creator gets it: one reference, the creator's.
\* pc and prev are each thread's position in a release and the value its
\* atomic decrement returned; destroys counts the calls of vtable->destroy and
\* owned_at_destroy the references that were owned when it ran.
NewStreamRefs ==
    [ refcount         |-> 1,
      owned            |-> [h \in StreamHolders |-> IF h = "connection" THEN 1 ELSE 0],
      pc               |-> [h \in StreamHolders |-> "idle"],
      prev             |-> [h \in StreamHolders |-> 0],
      destroys         |-> 0,
      owned_at_destroy |-> 0 ]

Init ==
    /\ options = CHOOSE o \in ConnectionOptions : TRUE
    /\ connect_result = "not_called"
    /\ last_error = 0
    /\ ws_state = "none"
    /\ ws_bootstrap = ZeroBootstrap
    /\ http_connection = NoConnection
    /\ handshake_stream = NoStream
    /\ websocket = [created |-> 0]
    /\ setup_calls = <<>>
    /\ shutdown_calls = <<>>
    /\ history = NoHistory
    /\ stream_refs = NewStreamRefs
    /\ caller_memory = "intact"

(* ------------------------------------------------------------------ *)
(* aws_websocket_client_connect                                       *)
(* ------------------------------------------------------------------ *)

\* Variant of RequiredOptionMissing: socket_options is not looked at.
RequiredOptionMissingLax(o) ==
    \/ ~o.allocator
    \/ ~o.bootstrap
    \/ ~o.has_uri
    \/ ~o.on_connection_setup

\* Lines 97-98: a required option is missing.
RequiredOptionMissing(o) ==
    \/ ~o.allocator
    \/ ~o.bootstrap
    \/ ~o.socket_options
    \/ ~o.has_uri
    \/ ~o.on_connection_setup

\* Lines 104-105.  The third conjunct tests on_incoming_frame_begin again.
all_frame_callbacks_set(o) ==
    /\ o.on_incoming_frame_begin
    /\ o.on_incoming_frame_payload
    /\ o.on_incoming_frame_begin

\* Lines 107-108.
no_frame_callbacks_set(o) ==
    /\ ~o.on_incoming_frame_begin
    /\ ~o.on_incoming_frame_payload
    /\ ~o.on_incoming_frame_begin

\* Line 110: the condition under which the frame callbacks are refused.
FrameCallbacksRefused(o) == all_frame_callbacks_set(o) \/ no_frame_callbacks_set(o)

\* Line 118.
HandshakeHeadersMissing(o) == ~o.handshake_header_array \/ o.num_handhake_headers = 0

\* Lines 96-123: the options are refused (each refusal raises
\* AWS_ERROR_INVALID_ARGUMENT).
OptionsRefused(o) ==
    \/ RequiredOptionMissing(o)
    \/ FrameCallbacksRefused(o)
    \/ HandshakeHeadersMissing(o)

RECURSIVE SumHeaderLengths(_, _)
\* Lines 144-147: the name and value lengths of headers i..Len(headers).
SumHeaderLengths(headers, i) ==
    IF i > Len(headers) THEN 0
    ELSE Len(headers[i].name) + Len(headers[i].value) + SumHeaderLengths(headers, i + 1)

\* Variant of request_storage_size: the path's length (line 143) is left out.
request_storage_size_of_headers(path, headers) == SumHeaderLengths(headers, 1)

\* Lines 143-147.
request_storage_size(path, headers) == Len(path) + SumHeaderLengths(headers, 1)

RECURSIVE CopyRequestHeaders(_, _, _)
\* Lines 166-177: copies headers i.. into the request storage; st holds the
\* storage, the header records made so far and write_success.
CopyRequestHeaders(st, headers, i) ==
    IF i > Len(headers) THEN st
    ELSE LET src      == headers[i]
             name     == Cursor(BufEnd(st.storage), Len(src.name))
             ok1      == WriteFits(st.storage, src.name)
             storage1 == aws_byte_buf_write_from_whole_cursor(st.storage, src.name)
             value    == Cursor(BufEnd(storage1), Len(src.value))
             ok2      == WriteFits(storage1, src.value)
             storage2 == aws_byte_buf_write_from_whole_cursor(storage1, src.value)
         IN  CopyRequestHeaders(
                 [storage       |-> storage2,
                  array         |-> Append(st.array, [name |-> name, value |-> value]),
                  write_success |-> st.write_success /\ ok1 /\ ok2],
                 headers, i + 1)

\* Variant of CopyRequest: the bytes are copied, but the path cursor and the
\* header records keep pointing to the caller's memory.
CopyRequestKeepingCallerPointers(path, headers) ==
    LET storage0 == aws_byte_buf_init(1, request_storage_size(path, headers))
        storage1 == aws_byte_buf_write_from_whole_cursor(storage0, path)
        copied   == CopyRequestHeaders(
                        [storage |-> storage1, array |-> <<>>,
                         write_success |-> WriteFits(storage0, path)],
                        headers, 1)
    IN  [request_path  |-> [alloc |-> -1, off |-> 0, len |-> Len(path)],
         storage       |-> copied.storage,
         array         |-> [i \in 1..Len(copied.array) |->
                              [name  |-> [copied.array[i].name EXCEPT !.alloc = -1],
                               value |-> [copied.array[i].value EXCEPT !.alloc = -1]]],
         write_success |-> copied.write_success]

\* Lines 142-179: the deep copy of the request path and headers.
CopyRequest(path, headers) ==
    LET storage0 == aws_byte_buf_init(1, request_storage_size(path, headers))
        req_path == Cursor(BufEnd(storage0), Len(path))
        ok0      == WriteFits(storage0, path)
        storage1 == aws_byte_buf_write_from_whole_cursor(storage0, path)
        copied   == CopyRequestHeaders(
                        [storage |-> storage1, array |-> <<>>, write_success |-> ok0],
                        headers, 1)
    IN  [request_path  |-> req_path,
         storage       |-> copied.storage,
         array         |-> copied.array,
         write_success |-> copied.write_success]

\* Lines 132-200: the bootstrap once every allocation has succeeded.
NewBootstrap(o) ==
    LET headers == RequestHeaders(o.num_handhake_headers)
        req     == CopyRequest(o.uri.path_and_query, headers)
        slots   == o.num_handhake_headers + estimated_response_headers_extra
    IN  [ZeroBootstrap EXCEPT
           !.websocket_setup_callback          = o.on_connection_setup,
           !.websocket_shutdown_callback       = o.on_connection_shutdown,
           !.websocket_frame_begin_callback    = o.on_incoming_frame_begin,
           !.websocket_frame_payload_callback  = o.on_incoming_frame_payload,
           !.websocket_frame_complete_callback = o.on_incoming_frame_complete,
           !.response_status                   = AWS_HTTP_STATUS_UNKNOWN,
           !.request_path                      = req.request_path,
           !.request_header_array              = req.array,
           !.num_request_headers               = o.num_handhake_headers,
           !.request_storage                   = req.storage,
           !.response_headers_capacity         = slots,
           !.response_storage                  =
               aws_byte_buf_init(2, slots * estimated_response_header_length)]

\* s_ws_bootstrap_destroy: the owned memory is released.
s_ws_bootstrap_destroy(ws) ==
    [ws EXCEPT !.request_header_array = <<>>,
               !.request_storage = EmptyBuf,
               !.response_headers = <<>>,
               !.response_headers_capacity = 0,
               !.response_storage = EmptyBuf]

\* The allocations of aws_websocket_client_connect, in order: the bootstrap
\* (127), the request storage (149), the request header array (161), the
\* response header list (185), the response storage (194).
NumConnectAllocations == 5

\* The call refused the options: nothing was allocated, nothing was started.
ConnectRefused(o) ==
    /\ OptionsRefused(o)
    /\ options' = o
    /\ connect_result' = "AWS_OP_ERR"
    /\ last_error' = AWS_ERROR_INVALID_ARGUMENT
    /\ history' = [history EXCEPT !.last_handler = "connect"]
    /\ UNCHANGED << ws_state, ws_bootstrap, http_connection, handshake_stream,
                    websocket, setup_calls, shutdown_calls, stream_refs,
                    caller_memory >>

\* Lines 125-200 with the alloc_fail-th allocation failing: goto error.
ConnectOutOfMemory(o, alloc_fail) ==
    /\ ~OptionsRefused(o)
    /\ alloc_fail \in 1..NumConnectAllocations
    /\ options' = o
    /\ connect_result' = "AWS_OP_ERR"
    /\ last_error' = AWS_ERROR_OOM
    /\ ws_state' = IF alloc_fail = 1 THEN "none" ELSE "destroyed"
    /\ ws_bootstrap' = ZeroBootstrap
    /\ history' = [history EXCEPT
                     !.last_handler = "connect",
                     !.destroys = IF alloc_fail = 1 THEN @ ELSE @ + 1]
    /\ UNCHANGED << http_connection, handshake_stream, websocket, setup_calls,
                    shutdown_calls, stream_refs, caller_memory >>

\* ConnectHttpFailed without the call of s_ws_bootstrap_destroy at lines 255-257.
ConnectHttpFailedLeaking(o, err) ==
    /\ ~OptionsRefused(o)
    /\ err # 0
    /\ options' = o
    /\ connect_result' = "AWS_OP_ERR"
    /\ last_error' = err
    /\ ws_state' = "live"
    /\ ws_bootstrap' = NewBootstrap(o)
    /\ history' = [history EXCEPT !.last_handler = "connect"]
    /\ UNCHANGED << http_connection, handshake_stream, websocket, setup_calls,
                    shutdown_calls, stream_refs, caller_memory >>

\* Lines 202-238 with aws_http_client_connect failing: goto error_already_logged.
ConnectHttpFailed(o, err) ==
    /\ ~OptionsRefused(o)
    /\ err # 0
    /\ options' = o
    /\ connect_result' = "AWS_OP_ERR"
    /\ last_error' = err
    /\ ws_state' = "destroyed"
    /\ ws_bootstrap' = s_ws_bootstrap_destroy(NewBootstrap(o))
    /\ history' = [history EXCEPT !.last_handler = "connect", !.destroys = @ + 1]
    /\ UNCHANGED << http_connection, handshake_stream, websocket, setup_calls,
                    shutdown_calls, stream_refs, caller_memory >>

\* Lines 125-247: the bootstrap is built and the HTTP connection is started.
ConnectStarted(o) ==
    /\ ~OptionsRefused(o)
    /\ options' = o
    /\ connect_result' = "AWS_OP_SUCCESS"
    /\ ws_state' = "live"
    /\ ws_bootstrap' = NewBootstrap(o)
    /\ http_connection' = [NoConnection EXCEPT
                             !.state = "connecting",
                             !.port = InferPort(o.uri, o.tls_options)]
    /\ history' = [history EXCEPT !.last_handler = "connect"]
    /\ UNCHANGED << last_error, handshake_stream, websocket, setup_calls,
                    shutdown_calls, stream_refs, caller_memory >>

aws_websocket_client_connect ==
    /\ connect_result = "not_called"
    /\ \E o \in ConnectionOptions :
          \/ ConnectRefused(o)
          \/ \E alloc_fail \in 1..NumConnectAllocations : ConnectOutOfMemory(o, alloc_fail)
          \/ \E err \in TransportErrors : ConnectHttpFailed(o, err)
          \/ ConnectStarted(o)

(* ------------------------------------------------------------------ *)
(* Handler context                                                    *)
(* ------------------------------------------------------------------ *)

\* The state a handler reads and writes, as one record; Apply installs the
\* record a handler returns as the next state.
RECURSIVE CallerHeaderBytes(_, _)
\* The bytes of the caller's headers i.., names and values in order.
CallerHeaderBytes(headers, i) ==
    IF i > Len(headers) THEN <<>>
    ELSE headers[i].name \o headers[i].value \o CallerHeaderBytes(headers, i + 1)

\* The memory behind options->uri and options->handshake_header_array: the
\* path and the headers as the caller wrote them, or other bytes once the
\* caller has reused the buffers.  It is none of the bootstrap's allocations.
CallerBuf(o, memory) ==
    LET bytes == o.uri.path_and_query
                   \o CallerHeaderBytes(RequestHeaders(o.num_handhake_headers), 1)
    IN  [ alloc    |-> -1,
          buffer   |-> IF memory = "intact" THEN bytes ELSE Rep(0, Len(bytes)),
          capacity |-> Len(bytes) ]

Ctx ==
    [ ws             |-> ws_bootstrap,
      ws_state       |-> ws_state,
      conn           |-> http_connection,
      stream         |-> handshake_stream,
      websocket      |-> websocket,
      setup_calls    |-> setup_calls,
      shutdown_calls |-> shutdown_calls,
      last_error     |-> last_error,
      hist           |-> history,
      caller         |-> CallerBuf(options, caller_memory) ]

Apply(c) ==
    /\ ws_bootstrap' = c.ws
    /\ ws_state' = c.ws_state
    /\ http_connection' = c.conn
    /\ handshake_stream' = c.stream
    /\ websocket' = c.websocket
    /\ setup_calls' = c.setup_calls
    /\ shutdown_calls' = c.shutdown_calls
    /\ last_error' = c.last_error
    /\ history' = c.hist
    /\ UNCHANGED << options, connect_result, stream_refs, caller_memory >>

\* aws_raise_error
aws_raise_error(c, err) == [c EXCEPT !.last_error = err]

\* One invocation of the user's on_connection_setup.  records is the array of
\* header records passed, headers what the callback reads through them;
\* conn_state is the state of the HTTP connection when the call is made.
SetupCall(c, ws_handle, error_code, status, records, headers) ==
    [ websocket       |-> ws_handle,
      error_code      |-> error_code,
      response_status |-> status,
      header_records  |-> records,
      header_array    |-> headers,
      num_headers     |-> Len(headers),
      conn_state      |-> c.conn.state,
      handler         |-> c.hist.last_handler ]

\* One invocation of the user's on_connection_shutdown.
ShutdownCall(c, ws_handle, error_code) ==
    [ websocket  |-> ws_handle,
      error_code |-> error_code,
      conn_state |-> c.conn.state ]

\* s_ws_bootstrap_destroy on a live bootstrap.
Destroy(c) ==
    [c EXCEPT !.ws = s_ws_bootstrap_destroy(c.ws),
              !.ws_state = "destroyed",
              !.hist.destroys = @ + 1]

\* Lines 386-390 and 532-536: the header array handed to the setup callback,
\* as the callback reads it.  `captured` holds, for each record, the bytes
\* that were copied for it.
ObservedHeaders(c, stale_intact) ==
    [ i \in 1..Len(c.ws.response_headers) |->
        [ name  |-> ReadCursor(c.ws.response_storage, c.ws.response_headers[i].name,
                               c.hist.captured[i].name, stale_intact),
          value |-> ReadCursor(c.ws.response_storage, c.ws.response_headers[i].value,
                               c.hist.captured[i].value, stale_intact) ] ]

(* ------------------------------------------------------------------ *)
(* s_ws_bootstrap_cancel_setup_due_to_err                             *)
(* ------------------------------------------------------------------ *)

\* Variant of CancelFirst: the failure is reported to the user at once.
CancelFirstReportingNow(c, error_code) ==
    [c EXCEPT !.ws.setup_error_code = error_code,
              !.ws.websocket_setup_callback = FALSE,
              !.conn.close_requests = @ + 1,
              !.setup_calls = Append(@, SetupCall(c, NULL, error_code,
                                                  c.ws.response_status, <<>>, <<>>))]

\* Lines 287-298: the first error is kept and the connection is asked to close.
CancelFirst(c, error_code) ==
    [c EXCEPT !.ws.setup_error_code = error_code,
              !.conn.close_requests = @ + 1]

\* Variant of s_ws_bootstrap_cancel_setup_due_to_err without the test of
\* line 287: every call records its error and asks for the close.
s_ws_bootstrap_cancel_setup_every_time(c, error_code) ==
    CancelFirst([c EXCEPT !.hist.cancel_calls = @ + 1,
                          !.hist.cancel_errors = Append(@, error_code)],
                error_code)

\* Lines 279-299.
s_ws_bootstrap_cancel_setup_due_to_err(c, error_code) ==
    LET noted == [c EXCEPT !.hist.cancel_calls = @ + 1,
                           !.hist.cancel_errors = Append(@, error_code)]
    IN  IF noted.ws.setup_error_code = 0
        THEN CancelFirst(noted, error_code)
        ELSE noted

(* ------------------------------------------------------------------ *)
(* s_ws_bootstrap_on_http_setup                                       *)
(* ------------------------------------------------------------------ *)

\* Variant of HttpSetupFailed: the failure goes through the cancellation path.
HttpSetupFailedCancelling(c, error_code) ==
    s_ws_bootstrap_cancel_setup_due_to_err([c EXCEPT !.conn.state = "failed"], error_code)

\* Lines 310-323: the HTTP connection failed to be established.
HttpSetupFailed(c, error_code) ==
    LET failed == [c EXCEPT !.conn.state = "failed"]
        called == [failed EXCEPT !.setup_calls =
                      Append(@, SetupCall(failed, NULL, error_code,
                                          AWS_HTTP_STATUS_UNKNOWN, <<>>, <<>>))]
    IN  Destroy(called)

\* The bytes a cursor of the request refers to when the request is issued:
\* bytes of the bootstrap's request storage, or of the caller's memory as it
\* is by then, or of memory that is no longer allocated.
ReadRequestCursor(ws, caller, cur) ==
    IF cur.alloc = ws.request_storage.alloc
    THEN SubSeq(ws.request_storage.buffer, cur.off + 1, cur.off + cur.len)
    ELSE IF cur.alloc = caller.alloc
    THEN SubSeq(caller.buffer, cur.off + 1, cur.off + cur.len)
    ELSE Rep(255, cur.len)

\* Lines 329-340: the handshake request.
HandshakeRequest(ws, caller) ==
    [ method       |-> "GET",
      uri          |-> ReadRequestCursor(ws, caller, ws.request_path),
      header_array |->
          [ i \in 1..ws.num_request_headers |->
              [ name  |-> ReadRequestCursor(ws, caller, ws.request_header_array[i].name),
                value |-> ReadRequestCursor(ws, caller,
                                            ws.request_header_array[i].value) ] ] ]

\* Lines 325-360: the connection exists; new_stream_error is 0 when
\* aws_http_stream_new_client_request succeeds, else the error it raises.
HttpSetupDone(c, new_stream_error) ==
    LET open == [c EXCEPT !.conn.state = "open"]
    IN  IF new_stream_error = 0
        THEN [open EXCEPT !.stream = [NoStream EXCEPT
                                        !.state = "active",
                                        !.request = HandshakeRequest(c.ws, c.caller)]]
        ELSE LET raised == aws_raise_error(open, new_stream_error)
             IN  s_ws_bootstrap_cancel_setup_due_to_err(raised, raised.last_error)

\* error_code # 0 exactly when the connection is NULL (line 307).
s_ws_bootstrap_on_http_setup(c, error_code, new_stream_error) ==
    LET entered == [c EXCEPT !.hist.last_handler = "on_http_setup",
                             !.hist.setup_errors = Append(@, error_code)]
    IN  IF error_code # 0
        THEN HttpSetupFailed(entered, error_code)
        ELSE HttpSetupDone(entered, new_stream_error)

\* The HTTP connection service reports the outcome of the connect exactly
\* once, after aws_http_client_connect succeeded.
HttpSetupPending == http_connection.state = "connecting"

on_http_setup ==
    /\ HttpSetupPending
    /\ \E error_code \in {0} \cup TransportErrors :
       \E new_stream_error \in {0, AWS_ERROR_OOM} :
          /\ error_code # 0 => new_stream_error = 0
          /\ Apply(s_ws_bootstrap_on_http_setup(Ctx, error_code, new_stream_error))

(* ------------------------------------------------------------------ *)
(* s_ws_bootstrap_on_handshake_response_headers                       *)
(* ------------------------------------------------------------------ *)

\* An allocation made while copying: the fail_at-th one of the call fails.
\* st.allocs counts the allocations the call has attempted so far.
AllocFails(st, fail_at) == st.allocs + 1 = fail_at

RECURSIVE CopyResponseHeaders(_, _, _, _)
\* Lines 432-454: copies headers i.. of the batch.  st holds the response
\* storage, the header list and its capacity, the delivered header of each
\* record, the allocations attempted and the error raised (0: none).
CopyResponseHeaders(st, header_array, i, fail_at) ==
    IF i > Len(header_array) \/ st.err # 0 THEN st
    ELSE
    LET src        == header_array[i]
        \* lines 436-441
        name       == Cursor(BufEnd(st.storage), Len(src.name))
        name_grows == NeedsGrowth(st.storage, src.name)
        name_fails == name_grows /\ AllocFails(st, fail_at)
        allocs1    == IF name_grows THEN st.allocs + 1 ELSE st.allocs
        storage1   == IF name_fails THEN st.storage
                      ELSE aws_byte_buf_append_dynamic(st.storage, src.name)
        \* lines 443-448
        value       == Cursor(BufEnd(storage1), Len(src.value))
        value_grows == NeedsGrowth(storage1, src.value)
        value_fails == value_grows /\ AllocFails([allocs |-> allocs1], fail_at)
        allocs2     == IF value_grows THEN allocs1 + 1 ELSE allocs1
        storage2    == IF value_fails THEN storage1
                       ELSE aws_byte_buf_append_dynamic(storage1, src.value)
        \* lines 450-453: aws_array_list_push_back grows a full list
        list_grows == Len(st.list) >= st.list_capacity
        list_fails == list_grows /\ AllocFails([allocs |-> allocs2], fail_at)
        allocs3    == IF list_grows THEN allocs2 + 1 ELSE allocs2
    IN  IF name_fails
        THEN [st EXCEPT !.allocs = allocs1, !.err = AWS_ERROR_OOM]
        ELSE IF value_fails
        THEN [st EXCEPT !.storage = storage1, !.allocs = allocs2, !.err = AWS_ERROR_OOM]
        ELSE IF list_fails
        THEN [st EXCEPT !.storage = storage2, !.allocs = allocs3, !.err = AWS_ERROR_OOM]
        ELSE CopyResponseHeaders(
                 [st EXCEPT
                    !.storage = storage2,
                    !.list = Append(@, [name |-> name, value |-> value]),
                    !.list_capacity = IF list_grows
                                      THEN (IF @ = 0 THEN 1 ELSE @ + @)
                                      ELSE @,
                    !.captured = Append(@, src),
                    !.allocs = allocs3],
                 header_array, i + 1, fail_at)

s_ws_bootstrap_on_handshake_response_headers(c, header_array, fail_at) ==
    LET entered == [c EXCEPT !.hist.last_handler = "on_handshake_response_headers",
                             !.hist.received = @ \o header_array,
                             !.stream.batches = @ + 1]
        copied  == CopyResponseHeaders(
                       [storage       |-> c.ws.response_storage,
                        list          |-> c.ws.response_headers,
                        list_capacity |-> c.ws.response_headers_capacity,
                        captured      |-> c.hist.captured,
                        allocs        |-> 0,
                        err           |-> 0],
                       header_array, 1, fail_at)
        stored  == [entered EXCEPT
                      !.ws.response_storage = copied.storage,
                      !.ws.response_headers = copied.list,
                      !.ws.response_headers_capacity = copied.list_capacity,
                      !.hist.captured = copied.captured]
    IN  IF copied.err = 0
        THEN stored
        ELSE LET raised == aws_raise_error(stored, copied.err)
             IN  s_ws_bootstrap_cancel_setup_due_to_err(raised, raised.last_error)

\* The stream delivers headers while it is active: after its creation and
\* before its completion, on a connection that has not reported shutdown.
\* A requested close does not withdraw callbacks already on their way: until
\* the connection reports shutdown the stream may still deliver headers and
\* its completion, with any error code (zero included).
StreamActive == handshake_stream.state = "active" /\ http_connection.state = "open"

on_handshake_response_headers ==
    /\ StreamActive
    /\ handshake_stream.batches < MaxBatches
    /\ \E header_array \in HeaderBatches :
       \E fail_at \in 0..(3 * Len(header_array)) :
          Apply(s_ws_bootstrap_on_handshake_response_headers(Ctx, header_array, fail_at))

(* ------------------------------------------------------------------ *)
(* s_ws_bootstrap_on_handshake_complete                               *)
(* ------------------------------------------------------------------ *)

\* aws_http_stream_release by the bootstrap; the stream is complete.
ReleaseStream(c) == [c EXCEPT !.stream.releases = @ + 1]

\* Line 481: the response accepts the upgrade.
UpgradeAccepted(status) == status = AWS_HTTP_STATUS_101_SWITCHING_PROTOCOLS

\* Variant of ClearSetupCallback: the callback is left set after its invocation.
ClearSetupCallbackForgotten(ws) == ws

\* Line 542: the setup callback is cleared once it has been invoked.
ClearSetupCallback(ws) == [ws EXCEPT !.websocket_setup_callback = FALSE]

\* Variant of HandshakeFailed: the error label without aws_http_stream_release.
HandshakeFailedKeepingStream(c, error_code) ==
    s_ws_bootstrap_cancel_setup_due_to_err(
        c, IF error_code = 0 THEN c.last_error ELSE error_code)

\* Lines 547-552: the error label.
HandshakeFailed(c, error_code) ==
    LET code == IF error_code = 0 THEN c.last_error ELSE error_code
    IN  ReleaseStream(s_ws_bootstrap_cancel_setup_due_to_err(c, code))

\* Variant of HandshakeSucceeded: the new handler is passed to the setup
\* callback but not stored in the bootstrap (line 508).
HandshakeSucceededHandleNotStored(c, stale_intact) ==
    LET handle    == c.websocket.created + 1
        installed == [c EXCEPT !.websocket.created = handle]
        called    == [installed EXCEPT !.setup_calls =
                         Append(@, SetupCall(installed, handle, 0,
                                             installed.ws.response_status,
                                             installed.ws.response_headers,
                                             ObservedHeaders(installed, stale_intact)))]
    IN  ReleaseStream([called EXCEPT !.ws = ClearSetupCallback(@)])

\* Lines 520-545: the handler is installed; the setup callback reports success.
HandshakeSucceeded(c, stale_intact) ==
    LET handle    == c.websocket.created + 1
        installed == [c EXCEPT !.websocket.created = handle,
                               !.ws.websocket = handle]
        called    == [installed EXCEPT !.setup_calls =
                         Append(@, SetupCall(installed, installed.ws.websocket, 0,
                                             installed.ws.response_status,
                                             installed.ws.response_headers,
                                             ObservedHeaders(installed, stale_intact)))]
    IN  ReleaseStream([called EXCEPT !.ws = ClearSetupCallback(@)])

\* status is the stream's incoming response status; handler_error is 0 when
\* aws_websocket_handler_new succeeds, else the error it raises.
s_ws_bootstrap_on_handshake_complete(c, error_code, status, handler_error, stale_intact) ==
    LET entered == [c EXCEPT !.hist.last_handler = "on_handshake_complete",
                             !.hist.completions =
                                 Append(@, [error_code |-> error_code,
                                            status     |-> IF error_code = 0 THEN status
                                                           ELSE AWS_HTTP_STATUS_UNKNOWN]),
                             !.stream.state = "complete"]
        \* line 478
        got     == [entered EXCEPT !.ws.response_status = status]
    IN  IF error_code # 0
        THEN HandshakeFailed(entered, error_code)
        ELSE IF ~UpgradeAccepted(got.ws.response_status)
        THEN HandshakeFailed(
                 aws_raise_error(got, AWS_ERROR_HTTP_WEBSOCKET_UPGRADE_FAILURE), error_code)
        ELSE IF handler_error # 0
        THEN HandshakeFailed(
                 aws_raise_error([got EXCEPT !.ws.websocket = NULL], handler_error),
                 error_code)
        ELSE HandshakeSucceeded(got, stale_intact)

on_handshake_complete ==
    /\ StreamActive
    /\ \E error_code \in {0} \cup TransportErrors :
       \E status \in ResponseStatuses :
       \E handler_error \in {0, AWS_ERROR_OOM} :
       \E stale_intact \in BOOLEAN :
          Apply(s_ws_bootstrap_on_handshake_complete(
                    Ctx, error_code, status, handler_error, stale_intact))

(* ------------------------------------------------------------------ *)
(* s_ws_bootstrap_on_http_shutdown                                    *)
(* ------------------------------------------------------------------ *)

\* Variant of SetupPending: decides by the sticky error instead.
SetupPendingBySetupError(ws) == ws.setup_error_code # 0

\* Line 374: the setup callback has not been invoked yet.
SetupPending(ws) == ws.websocket_setup_callback

\* Variant of FailureErrorCode: the shutdown's error code is passed as it is.
FailureErrorCodeUnchecked(ws, error_code) == error_code

\* Variant of FailureErrorCode: the sticky error is preferred to the
\* shutdown's error code.
FailureErrorCodeStickyFirst(ws, error_code) ==
    IF ws.setup_error_code # 0 THEN ws.setup_error_code
    ELSE IF error_code # 0 THEN error_code
    ELSE AWS_ERROR_UNKNOWN

\* Lines 377-383: a non-zero error code for the failed setup.
FailureErrorCode(ws, error_code) ==
    IF error_code # 0 THEN error_code
    ELSE IF ws.setup_error_code # 0 THEN ws.setup_error_code
    ELSE AWS_ERROR_UNKNOWN

\* Lines 374-400: the setup callback reports the failure.
ReportSetupFailure(c, error_code, stale_intact) ==
    [c EXCEPT !.setup_calls =
        Append(@, SetupCall(c, NULL, FailureErrorCode(c.ws, error_code),
                            c.ws.response_status, c.ws.response_headers,
                            ObservedHeaders(c, stale_intact)))]

\* Lines 402-413: the shutdown callback, when the user gave one.
ReportShutdown(c, error_code) ==
    IF c.ws.websocket_shutdown_callback
    THEN [c EXCEPT !.shutdown_calls = Append(@, ShutdownCall(c, c.ws.websocket, error_code))]
    ELSE c

\* Variant of ReleaseAndDestroy: aws_http_connection_release is left out.
ReleaseAndDestroyKeepingConnection(c) == Destroy(c)

\* Lines 415-419.
ReleaseAndDestroy(c) == Destroy([c EXCEPT !.conn.releases = @ + 1])

s_ws_bootstrap_on_http_shutdown(c, error_code, stale_intact) ==
    LET entered == [c EXCEPT !.hist.last_handler = "on_http_shutdown",
                             !.hist.shutdown_errors = Append(@, error_code),
                             !.conn.state = "shutdown"]
    IN  IF SetupPending(entered.ws)
        THEN ReleaseAndDestroy(ReportSetupFailure(entered, error_code, stale_intact))
        ELSE ReleaseAndDestroy(ReportShutdown(entered, error_code))

\* The HTTP connection service reports shutdown exactly once for a
\* connection it established, after the connection's stream (if one was
\* created) has completed; never for a connection that failed its setup.
HttpMayShutDown == http_connection.state = "open" /\ handshake_stream.state # "active"

on_http_shutdown ==
    /\ HttpMayShutDown
    /\ \E error_code \in {0} \cup TransportErrors :
       \E stale_intact \in BOOLEAN :
          Apply(s_ws_bootstrap_on_http_shutdown(Ctx, error_code, stale_intact))

Next ==
    \/ aws_websocket_client_connect
    \/ on_http_setup
    \/ on_handshake_response_headers
    \/ on_handshake_complete
    \/ on_http_shutdown

Spec == Init /\ [][Next]_vars

\* The collaborators are fair: the HTTP connection service reports the
\* outcome of a connect it accepted, a stream that was created completes, and
\* a connection that was asked to close reports its shutdown.
CloseRequested == http_connection.close_requests > 0

Fairness ==
    /\ WF_vars(on_http_setup)
    /\ WF_vars(on_handshake_complete)
    /\ WF_vars(CloseRequested /\ on_http_shutdown)

\* Options the call accepts: with and without a shutdown callback, one
\* request header, the first URI.
FairOptions ==
    { o \in ConnectionOptions :
        /\ ~OptionsRefused(o)
        /\ o.num_handhake_headers = 1
        /\ o.uri.scheme = <<119, 115>>
        /\ o.on_incoming_frame_begin /\ o.on_incoming_frame_complete }

connect_accepted ==
    /\ connect_result = "not_called"
    /\ \E o \in FairOptions :
          \/ \E err \in TransportErrors : ConnectHttpFailed(o, err)
          \/ ConnectStarted(o)

NextFair ==
    \/ connect_accepted
    \/ on_http_setup
    \/ on_handshake_response_headers
    \/ on_handshake_complete
    \/ on_http_shutdown

SpecFair == Init /\ [][NextFair]_vars /\ Fairness

(* ------------------------------------------------------------------ *)
(* Port inference: aws_websocket_client_connect over many URIs        *)
(* ------------------------------------------------------------------ *)

\* Spellings of the schemes of s_scheme_ports, in several cases.
HttpSpellings  == { <<104, 116, 116, 112>>, <<72, 84, 84, 80>>, <<104, 84, 116, 80>> }
HttpsSpellings == { <<104, 116, 116, 112, 115>>, <<72, 84, 84, 80, 83>>,
                    <<72, 116, 116, 112, 83>> }
WsSpellings    == { <<119, 115>>, <<87, 83>>, <<87, 115>> }
WssSpellings   == { <<119, 115, 115>>, <<87, 83, 83>>, <<119, 83, 115>> }
\* Schemes the table does not hold: "x", "htt", "wsss", "ftp", "httpx", the
\* empty scheme.
OtherSchemes   == { <<120>>, <<104, 116, 116>>, <<119, 115, 115, 115>>,
                    <<102, 116, 112>>, <<104, 116, 116, 112, 120>>, <<>> }
PortSchemes    ==
    HttpSpellings \cup HttpsSpellings \cup WsSpellings \cup WssSpellings
        \cup OtherSchemes

\* aws_uri_port: 0 when the URI names no port; the port is a uint16_t.
UriPorts == {0, 1, 80, 443, 9000, 65535}

\* Options the call accepts, over every scheme, port and TLS choice above.
PortOptions ==
    { [allocator                  |-> TRUE,
       bootstrap                  |-> TRUE,
       socket_options             |-> TRUE,
       has_uri                    |-> TRUE,
       uri                        |-> [scheme |-> sc, port |-> pt,
                                       path_and_query |-> <<47>>],
       tls_options                |-> tls,
       on_connection_setup        |-> TRUE,
       on_connection_shutdown     |-> TRUE,
       on_incoming_frame_begin    |-> TRUE,
       on_incoming_frame_payload  |-> FALSE,
       on_incoming_frame_complete |-> TRUE,
       handshake_header_array     |-> TRUE,
       num_handhake_headers       |-> 1] :
      sc \in PortSchemes, pt \in UriPorts, tls \in BOOLEAN }

\* aws_websocket_client_connect returned AWS_OP_SUCCESS.
Initiated == connect_result = "AWS_OP_SUCCESS"

connect_with_uri ==
    /\ connect_result = "not_called"
    /\ \E o \in PortOptions : ConnectStarted(o)

SpecPort == Init /\ [][connect_with_uri]_vars

(* ------------------------------------------------------------------ *)
(* The handshake request when the caller reuses its buffers           *)
(* ------------------------------------------------------------------ *)

\* After aws_websocket_client_connect has returned and before the connection
\* is set up, the caller overwrites the memory its options pointed to.
caller_reuses_buffers ==
    /\ Initiated
    /\ http_connection.state = "connecting"
    /\ caller_memory = "intact"
    /\ caller_memory' = "reused"
    /\ UNCHANGED << options, connect_result, last_error, ws_state, ws_bootstrap,
                    http_connection, handshake_stream, websocket, setup_calls,
                    shutdown_calls, history, stream_refs >>

NextRequest ==
    \/ aws_websocket_client_connect
    \/ caller_reuses_buffers
    \/ on_http_setup

SpecRequest == Init /\ [][NextRequest]_vars

(* ------------------------------------------------------------------ *)
(* The stream's reference count, shared between threads               *)
(* ------------------------------------------------------------------ *)

RECURSIVE SumOwned(_, _)
\* References owned by the holders of set hs.
SumOwned(owned, hs) ==
    IF hs = {} THEN 0
    ELSE LET h == CHOOSE x \in hs : TRUE
         IN  owned[h] + SumOwned(owned, hs \ {h})

\* Variant of TeardownDue: the count is read again after the decrement.
TeardownDueByReload(prev, now) == now = 0

\* The releasing thread runs the teardown when its own decrement took the
\* count from one to zero; prev is the value the atomic decrement returned.
TeardownDue(prev, now) == prev = 1

\* A thread that owns a reference increments the count atomically, for
\* itself or to hand the new reference to another thread.
stream_acquire(h, to) ==
    /\ stream_refs.pc[h] = "idle"
    /\ stream_refs.owned[h] >= 1
    /\ stream_refs.refcount < MaxStreamRefs
    /\ stream_refs' = [stream_refs EXCEPT !.refcount = @ + 1, !.owned[to] = @ + 1]

\* First half of a release: the atomic decrement, which returns the count it
\* found.
stream_release_decrement(h) ==
    /\ stream_refs.pc[h] = "idle"
    /\ stream_refs.owned[h] >= 1
    /\ stream_refs' = [stream_refs EXCEPT
                         !.prev[h] = stream_refs.refcount,
                         !.refcount = @ - 1,
                         !.owned[h] = @ - 1,
                         !.pc[h] = "decremented"]

\* Second half of a release: vtable->destroy when the teardown is due.
stream_release_teardown(h) ==
    /\ stream_refs.pc[h] = "decremented"
    /\ stream_refs' =
          IF TeardownDue(stream_refs.prev[h], stream_refs.refcount)
          THEN [stream_refs EXCEPT
                  !.pc[h] = "idle",
                  !.destroys = @ + 1,
                  !.owned_at_destroy = @ + SumOwned(stream_refs.owned, StreamHolders)]
          ELSE [stream_refs EXCEPT !.pc[h] = "idle"]

StreamRefsOnly ==
    UNCHANGED << options, connect_result, last_error, ws_state, ws_bootstrap,
                 http_connection, handshake_stream, websocket, setup_calls,
                 shutdown_calls, history, caller_memory >>

acquire == \E h \in StreamHolders, to \in StreamHolders :
              stream_acquire(h, to) /\ StreamRefsOnly

release_decrement == \E h \in StreamHolders :
                        stream_release_decrement(h) /\ StreamRefsOnly

release_teardown == \E h \in StreamHolders :
                       stream_release_teardown(h) /\ StreamRefsOnly

NextRefs == acquire \/ release_decrement \/ release_teardown

SpecRefs == Init /\ [][NextRefs]_vars

(* ================================================================== *)
(* Properties                                                         *)
(* ================================================================== *)

\* The connect call returned success.

\* The i-th setup call reported success / failure.
SetupSucceeded(i) == setup_calls[i].websocket # NULL /\ setup_calls[i].error_code = 0

SomeSetupSucceeded == \E i \in 1..Len(setup_calls) : SetupSucceeded(i)

\* This step invokes the setup / shutdown callback.
SetupInvokedNow == Len(setup_calls') > Len(setup_calls)

ShutdownInvokedNow == Len(shutdown_calls') > Len(shutdown_calls)

(* ------------------------------------------------------------------ *)
\* C1: once aws_websocket_client_connect has returned success, the setup
\* callback is invoked exactly once whatever the collaborators report: never
\* twice, it has been invoked when the bootstrap is destroyed, and no step
\* invokes both the setup and the shutdown callback.
C1_SetupExactlyOnce ==
    /\ [](Initiated =>
            /\ Len(setup_calls) <= 1
            /\ (ws_state = "destroyed" => Len(setup_calls) = 1))
    /\ [][~(SetupInvokedNow /\ ShutdownInvokedNow)]_vars

\* A whole run: setup reported success, later the shutdown callback ran and
\* the bootstrap was destroyed.
C1_Witness ==
    /\ Initiated
    /\ ws_state = "destroyed"
    /\ Len(setup_calls) = 1
    /\ SetupSucceeded(1)
    /\ Len(shutdown_calls) = 1

(* ------------------------------------------------------------------ *)
\* C2 as stated: the shutdown callback is invoked at most once, only when a
\* setup call has reported success, and once the connection has reported
\* shutdown after a successful setup it has been invoked.
C2_AsStated ==
    /\ Len(shutdown_calls) <= 1
    /\ (Len(shutdown_calls) > 0 => SomeSetupSucceeded)
    /\ (SomeSetupSucceeded /\ http_connection.state = "shutdown"
            => Len(shutdown_calls) = 1)

\* C2 (amended): the shutdown callback is invoked at most once and only in a
\* step after a setup call that reported success; once the connection has
\* reported shutdown after a successful setup, it has been invoked exactly
\* when the caller supplied a shutdown callback.
C2_ShutdownIffSetupSucceeded ==
    /\ [](/\ Len(shutdown_calls) <= 1
          /\ (Len(shutdown_calls) > 0 => SomeSetupSucceeded)
          /\ (SomeSetupSucceeded /\ http_connection.state = "shutdown"
                => Len(shutdown_calls) =
                     IF options.on_connection_shutdown THEN 1 ELSE 0))
    /\ [][ShutdownInvokedNow => SomeSetupSucceeded]_vars

\* The shutdown notification arrived after a successful setup and the
\* caller's shutdown callback ran.
C2_Witness ==
    /\ SomeSetupSucceeded
    /\ http_connection.state = "shutdown"
    /\ options.on_connection_shutdown
    /\ Len(shutdown_calls) = 1
    /\ shutdown_calls[1].websocket = setup_calls[1].websocket

(* ------------------------------------------------------------------ *)
\* C3: every invocation of the setup callback passes a handle with error
\* code zero, or no handle with a non-zero error code.
C3_HandleXorError ==
    \A i \in 1..Len(setup_calls) :
        \/ setup_calls[i].websocket # NULL /\ setup_calls[i].error_code = 0
        \/ setup_calls[i].websocket = NULL /\ setup_calls[i].error_code # 0

\* A failure reported from a shutdown notification that carried error zero.
C3_Witness ==
    /\ history.shutdown_errors = <<0>>
    /\ Len(setup_calls) = 1
    /\ setup_calls[1].handler = "on_http_shutdown"
    /\ setup_calls[1].websocket = NULL
    /\ setup_calls[1].error_code # 0

(* ------------------------------------------------------------------ *)
\* C4: whenever the setup callback is invoked with a failure, the HTTP
\* connection is not live at that moment (it was never established, or has
\* reported shutdown); and a step in which the cancellation runs invokes no
\* user callback.
C4_ClosedBeforeFailureReported ==
    /\ [](\A i \in 1..Len(setup_calls) :
            setup_calls[i].error_code # 0
                => setup_calls[i].conn_state \in {"failed", "shutdown"})
    /\ [][history.cancel_calls' > history.cancel_calls
            => ~SetupInvokedNow /\ ~ShutdownInvokedNow]_vars

\* A cancellation asked for the close, and the failure was reported from the
\* shutdown notification that followed.
C4_Witness ==
    /\ history.cancel_calls > 0
    /\ http_connection.close_requests = 1
    /\ Len(setup_calls) = 1
    /\ setup_calls[1].error_code # 0
    /\ setup_calls[1].conn_state = "shutdown"

(* ------------------------------------------------------------------ *)
\* The stream completed without error with a status other than 101.
UpgradeRefused ==
    /\ Len(history.completions) = 1
    /\ history.completions[1].error_code = 0
    /\ history.completions[1].status # AWS_HTTP_STATUS_101_SWITCHING_PROTOCOLS

\* C5 as stated: after a completion without error with a status other than
\* 101, no handler is installed, a close has been requested, and the setup
\* callback is invoked only from the connection's shutdown, with no handle,
\* error code UPGRADE_FAILURE and the received status.
C5_AsStated ==
    UpgradeRefused =>
        /\ websocket.created = 0
        /\ http_connection.close_requests >= 1
        /\ (http_connection.state = "shutdown" => Len(setup_calls) = 1)
        /\ \A i \in 1..Len(setup_calls) :
              /\ setup_calls[i].conn_state = "shutdown"
              /\ setup_calls[i].websocket = NULL
              /\ setup_calls[i].error_code = AWS_ERROR_HTTP_WEBSOCKET_UPGRADE_FAILURE
              /\ setup_calls[i].response_status = history.completions[1].status

(* ------------------------------------------------------------------ *)
\* C6 as stated: when setup fails after the connection was established, the
\* error code passed to the setup callback is the error code of the first
\* cancellation, whatever the shutdown notification reports.
C6_AsStated ==
    \A i \in 1..Len(setup_calls) :
        (setup_calls[i].error_code # 0 /\ setup_calls[i].conn_state = "shutdown")
            => /\ history.cancel_errors # <<>>
               /\ setup_calls[i].error_code = history.cancel_errors[1]

(* ------------------------------------------------------------------ *)
\* C7: when the HTTP connection fails to be established, the setup callback
\* is invoked in that step with the reported error code, no handle, status
\* unknown and no headers; no close is requested, the bootstrap is destroyed
\* and the shutdown callback is never invoked.
C7_ConnectFailureReportedAtOnce ==
    http_connection.state = "failed" =>
        /\ Len(history.setup_errors) = 1
        /\ setup_calls =
             << [ websocket       |-> NULL,
                  error_code      |-> history.setup_errors[1],
                  response_status |-> AWS_HTTP_STATUS_UNKNOWN,
                  header_records  |-> <<>>,
                  header_array    |-> <<>>,
                  num_headers     |-> 0,
                  conn_state      |-> "failed",
                  handler         |-> "on_http_setup" ] >>
        /\ history.setup_errors[1] # 0
        /\ http_connection.close_requests = 0
        /\ ws_state = "destroyed"
        /\ shutdown_calls = <<>>

\* The connection failed to be established with a reported error.
C7_Witness ==
    /\ http_connection.state = "failed"
    /\ history.setup_errors = <<AWS_IO_SOCKET_CLOSED>>
    /\ Len(setup_calls) = 1
    /\ setup_calls[1].error_code = AWS_IO_SOCKET_CLOSED
    /\ options.on_connection_shutdown

(* ------------------------------------------------------------------ *)
\* C8 as stated: when every delivered header was copied, the header list
\* handed to the setup callback equals, byte for byte and in order, the
\* headers delivered across all batches.
C8_AsStated ==
    \A i \in 1..Len(setup_calls) :
        (history.captured = history.received /\ setup_calls[i].conn_state # "failed")
            => setup_calls[i].header_array = history.received

(* ------------------------------------------------------------------ *)
\* Every option but the frame callbacks is as the call requires.
OtherOptionsValid(o) ==
    /\ o.allocator /\ o.bootstrap /\ o.socket_options /\ o.has_uri
    /\ o.on_connection_setup
    /\ o.handshake_header_array /\ o.num_handhake_headers > 0

\* The three frame callbacks are all present or all absent.
FrameGroupWhole(o) ==
    \/ o.on_incoming_frame_begin /\ o.on_incoming_frame_payload
         /\ o.on_incoming_frame_complete
    \/ ~o.on_incoming_frame_begin /\ ~o.on_incoming_frame_payload
         /\ ~o.on_incoming_frame_complete

\* The call refused its options.
RefusedInvalidArgument ==
    connect_result = "AWS_OP_ERR" /\ last_error = AWS_ERROR_INVALID_ARGUMENT

\* C9 as stated: with every other option valid, the call refuses the options
\* with INVALID_ARGUMENT exactly when the frame callbacks are partially given.
C9_AsStated ==
    (connect_result # "not_called" /\ OtherOptionsValid(options))
        => (RefusedInvalidArgument <=> ~FrameGroupWhole(options))

(* ------------------------------------------------------------------ *)
\* C10: when the allocator, the connection bootstrap, the socket options,
\* the URI or the setup callback is absent, or no handshake header is given,
\* the call fails with INVALID_ARGUMENT, no bootstrap is created and no
\* connection is attempted.
C10_MissingOptionRefused ==
    ( /\ connect_result # "not_called"
      /\ \/ ~options.allocator
         \/ ~options.bootstrap
         \/ ~options.socket_options
         \/ ~options.has_uri
         \/ ~options.on_connection_setup
         \/ ~options.handshake_header_array
         \/ options.num_handhake_headers = 0 )
        => /\ RefusedInvalidArgument
           /\ ws_state = "none"
           /\ history.destroys = 0
           /\ http_connection = NoConnection
           /\ setup_calls = <<>>

\* A call refused only because the socket options are absent.
C10_Witness ==
    /\ RefusedInvalidArgument
    /\ ~options.socket_options
    /\ options.allocator /\ options.bootstrap /\ options.has_uri
    /\ options.on_connection_setup
    /\ options.handshake_header_array /\ options.num_handhake_headers > 0
    /\ ~FrameCallbacksRefused(options)

(* ------------------------------------------------------------------ *)
\* C11: when aws_websocket_client_connect returns AWS_OP_ERR (options
\* refused, an allocation failed, or aws_http_client_connect failed), no
\* setup or shutdown callback is ever invoked, no websocket handler (the only
\* caller of the frame callbacks) is ever created, no HTTP connection exists
\* whose notifications could reach the bootstrap, and the bootstrap, if it
\* was allocated, has been destroyed exactly once.  When the call returns
\* AWS_OP_SUCCESS the return value never changes, the bootstrap lives until a
\* notification destroys it, and by then the setup callback has reported the
\* outcome.
C11_FailureReturnedWithoutCallbacks ==
    /\ [](connect_result = "AWS_OP_ERR"
            => /\ setup_calls = <<>>
               /\ shutdown_calls = <<>>
               /\ websocket.created = 0
               /\ http_connection = NoConnection
               /\ handshake_stream = NoStream
               /\ last_error # 0
               /\ \/ ws_state = "none" /\ history.destroys = 0
                  \/ ws_state = "destroyed" /\ history.destroys = 1)
    /\ [](Initiated
            => /\ ws_state \in {"live", "destroyed"}
               /\ ws_state = "destroyed" => Len(setup_calls) = 1)
    /\ [][connect_result # "not_called" => connect_result' = connect_result]_vars

\* aws_http_client_connect failed synchronously: the bootstrap that had been
\* built was destroyed and nothing was reported through a callback.
C11_Witness ==
    /\ connect_result = "AWS_OP_ERR"
    /\ ~OptionsRefused(options)
    /\ last_error \in TransportErrors
    /\ ws_state = "destroyed"
    /\ setup_calls = <<>>

(* ------------------------------------------------------------------ *)
\* C12: the bootstrap is destroyed at most once, and it is destroyed only
\* when no HTTP connection is live (none was started, its setup failed, or
\* it has reported shutdown); while the connection is open the bootstrap is
\* live.  A step that destroys the bootstrap of an established connection is
\* the shutdown notification, and that step releases the connection exactly
\* once; the connection is released nowhere else.  No handler runs from a
\* state in which the bootstrap is destroyed.
C12_DestroyedOnceAfterShutdown ==
    /\ [](/\ history.destroys <= 1
          /\ (ws_state = "destroyed") = (history.destroys = 1)
          /\ ws_state = "destroyed"
                => http_connection.state \in {"none", "failed", "shutdown"}
          /\ http_connection.state \in {"connecting", "open"} => ws_state = "live"
          /\ http_connection.releases =
                (IF http_connection.state = "shutdown" THEN 1 ELSE 0))
    /\ [][/\ (history.destroys' > history.destroys /\ http_connection.state = "open")
               => /\ history'.last_handler = "on_http_shutdown"
                  /\ http_connection'.state = "shutdown"
                  /\ http_connection'.releases = http_connection.releases + 1
          /\ ws_state # "destroyed"]_vars

\* The connection was established for a successful setup, then shut down:
\* the bootstrap was destroyed once and the connection released once.
C12_Witness ==
    /\ SomeSetupSucceeded
    /\ http_connection.state = "shutdown"
    /\ http_connection.releases = 1
    /\ history.destroys = 1
    /\ ws_state = "destroyed"

(* ------------------------------------------------------------------ *)
\* The stream completed with error zero and status 101 and
\* aws_websocket_handler_new returned a handler.
UpgradeCompleted ==
    /\ history.completions =
           << [error_code |-> 0, status |-> AWS_HTTP_STATUS_101_SWITCHING_PROTOCOLS] >>
    /\ websocket.created = 1

\* C13: once the stream has completed with error zero and status 101 and the
\* handler is installed, the setup callback has been invoked once, with the
\* new handle, error code 0, status 101 and the response headers that were
\* captured; once the connection has then shut down, the caller's shutdown
\* callback has been invoked once, with that handle and the error code of
\* the shutdown notification.
C13_AsStated ==
    /\ UpgradeCompleted
          => /\ Len(setup_calls) = 1
             /\ setup_calls[1].websocket = websocket.created
             /\ setup_calls[1].websocket = ws_bootstrap.websocket
             /\ setup_calls[1].error_code = 0
             /\ setup_calls[1].response_status = AWS_HTTP_STATUS_101_SWITCHING_PROTOCOLS
             /\ setup_calls[1].header_array = history.captured
    /\ (UpgradeCompleted /\ http_connection.state = "shutdown"
           /\ options.on_connection_shutdown)
          => /\ Len(shutdown_calls) = 1
             /\ shutdown_calls[1].websocket = setup_calls[1].websocket
             /\ shutdown_calls[1].error_code = history.shutdown_errors[1]

(* ------------------------------------------------------------------ *)
\* The port the statement of C14 gives for a URI and a TLS choice.
StatedPort(uri, tls_options) ==
    IF uri.port # 0 THEN uri.port
    ELSE IF uri.scheme \in HttpSpellings \cup WsSpellings THEN 80
    ELSE IF uri.scheme \in HttpsSpellings \cup WssSpellings THEN 443
    ELSE IF tls_options THEN 443
    ELSE 80

\* C14: the port the HTTP connection is asked for depends only on the URI's
\* explicit port, its scheme and whether TLS options are given: an explicit
\* port is used as it is; otherwise http and ws (in any case) give 80, https
\* and wss (in any case) give 443; otherwise the port is 443 with TLS options
\* and 80 without.
C14_PortInferred ==
    Initiated => http_connection.port = StatedPort(options.uri, options.tls_options)

\* No explicit port, a scheme of the table spelled in mixed case, and TLS
\* options that would have given the other port.
C14_Witness ==
    /\ Initiated
    /\ options.uri.port = 0
    /\ options.uri.scheme = <<87, 115>>
    /\ options.tls_options
    /\ http_connection.port = 80

(* ------------------------------------------------------------------ *)
RECURSIVE StatedHeaderBytes(_, _)
\* Names and values of headers i.., one after the other.
StatedHeaderBytes(headers, i) ==
    IF i > Len(headers) THEN <<>>
    ELSE headers[i].name \o headers[i].value \o StatedHeaderBytes(headers, i + 1)

\* The bytes the request storage is to hold for the caller's options: the
\* path, then each header's name and value in order.
StatedRequestBytes(o) ==
    o.uri.path_and_query
        \o StatedHeaderBytes(RequestHeaders(o.num_handhake_headers), 1)

\* C15: while the bootstrap lives, its request storage is the allocation it
\* was initialised with (it never grew), its capacity is the length of the
\* path plus the lengths of all header names and values, every write of the
\* copy succeeded and the bytes written (the path, then each name and value in
\* order) fill the capacity exactly; writing one more byte fails and leaves
\* the storage as it is.
C15_RequestStorageExact ==
    (Initiated /\ ws_state = "live")
        => /\ ws_bootstrap.request_storage.alloc = 1
           /\ ws_bootstrap.request_storage.capacity = Len(StatedRequestBytes(options))
           /\ ws_bootstrap.request_storage.buffer = StatedRequestBytes(options)
           /\ CopyRequest(options.uri.path_and_query,
                          RequestHeaders(options.num_handhake_headers)).write_success
           /\ ~WriteFits(ws_bootstrap.request_storage, <<0>>)
           /\ aws_byte_buf_write_from_whole_cursor(ws_bootstrap.request_storage, <<0>>)
                 = ws_bootstrap.request_storage

\* Two request headers and a two-byte path were copied; the storage is full.
C15_Witness ==
    /\ Initiated /\ ws_state = "live"
    /\ options.num_handhake_headers = 2
    /\ Len(options.uri.path_and_query) = 2
    /\ ws_bootstrap.request_storage.capacity = 2 + (1 + 2) + (2 + 3)
    /\ Len(ws_bootstrap.request_storage.buffer) = ws_bootstrap.request_storage.capacity

(* ------------------------------------------------------------------ *)
\* C16: under every interleaving of the holders' atomic increments and
\* decrements, the count equals the number of references owned; the
\* teardown runs at most once, has run once every release that emptied the
\* count is finished, ran with no reference owned by any holder, and a step
\* that runs it belongs to the thread whose decrement returned one.
C16_TeardownExactlyOnce ==
    /\ [](/\ stream_refs.refcount = SumOwned(stream_refs.owned, StreamHolders)
          /\ stream_refs.destroys <= 1
          /\ stream_refs.owned_at_destroy = 0
          /\ stream_refs.destroys = 1
                => /\ stream_refs.refcount = 0
                   /\ \A h \in StreamHolders : stream_refs.owned[h] = 0
          /\ (stream_refs.refcount = 0
                /\ \A h \in StreamHolders : stream_refs.pc[h] = "idle")
                => stream_refs.destroys = 1)
    /\ [][stream_refs'.destroys > stream_refs.destroys
            => \E h \in StreamHolders :
                  /\ stream_refs.pc[h] = "decremented"
                  /\ stream_refs'.pc[h] = "idle"
                  /\ stream_refs.prev[h] = 1
                  /\ stream_refs.refcount = 0]_vars

\* Three references were held by three threads, two releases overlapped, and
\* the teardown has run.
C16_Witness ==
    /\ stream_refs.destroys = 1
    /\ stream_refs.refcount = 0
    /\ \A h \in StreamHolders : stream_refs.prev[h] >= 1
    /\ \E h \in StreamHolders : stream_refs.pc[h] = "decremented"

(* ------------------------------------------------------------------ *)
\* C17: over any number of calls of the cancellation, setup_error_code is
\* the error code of the first call (zero while there was none) and never
\* changes once it is set, the close of the connection has been requested
\* exactly once if there was a call and never otherwise, and a step in
\* which the cancellation runs invokes neither user callback.
C17_CancelStickyOnce ==
    /\ [](Initiated
            => /\ history.cancel_calls = Len(history.cancel_errors)
               /\ history.cancel_calls = 0
                     => /\ ws_bootstrap.setup_error_code = 0
                        /\ http_connection.close_requests = 0
               /\ history.cancel_calls > 0
                     => /\ ws_bootstrap.setup_error_code = history.cancel_errors[1]
                        /\ ws_bootstrap.setup_error_code # 0
                        /\ http_connection.close_requests = 1)
    /\ [][/\ ws_bootstrap.setup_error_code # 0
               => ws_bootstrap'.setup_error_code = ws_bootstrap.setup_error_code
          /\ history'.cancel_calls > history.cancel_calls
               => /\ setup_calls' = setup_calls
                  /\ shutdown_calls' = shutdown_calls]_vars

\* The cancellation ran twice with different error codes: the first was kept
\* and the close was requested once.
C17_Witness ==
    /\ history.cancel_calls >= 2
    /\ history.cancel_errors[1] # history.cancel_errors[2]
    /\ ws_bootstrap.setup_error_code = history.cancel_errors[1]
    /\ http_connection.close_requests = 1

(* ------------------------------------------------------------------ *)
\* The shutdown notification runs in this step with the setup callback
\* still pending.
ShutdownWithSetupPending ==
    /\ Len(history'.shutdown_errors) > Len(history.shutdown_errors)
    /\ ws_bootstrap.websocket_setup_callback

\* The error code the statement of C18 gives: the shutdown's, else the first
\* cancellation's, else AWS_ERROR_UNKNOWN.
StatedFailureCode(shutdown_error, cancel_errors) ==
    IF shutdown_error # 0 THEN shutdown_error
    ELSE IF cancel_errors # <<>> THEN cancel_errors[1]
    ELSE AWS_ERROR_UNKNOWN

\* The status captured so far: the one read at a completion without error,
\* else AWS_HTTP_STATUS_UNKNOWN.
StatedStatus(completions) ==
    IF completions # <<>> /\ completions[1].error_code = 0
    THEN completions[1].status
    ELSE AWS_HTTP_STATUS_UNKNOWN

\* C18: a shutdown notification that finds the setup callback pending
\* invokes it once, with no handle, with the shutdown's error code if that is
\* non-zero, else the sticky cancellation error if there was a cancellation,
\* else AWS_ERROR_UNKNOWN; with the status read from the stream if it
\* completed without error, else AWS_HTTP_STATUS_UNKNOWN; and with exactly
\* the header records the bootstrap holds at that moment, one for each
\* header captured.
C18_PendingSetupFailureArguments ==
    [][ShutdownWithSetupPending
         => LET call == setup_calls'[Len(setup_calls')]
            IN  /\ Len(setup_calls') = Len(setup_calls) + 1
                /\ call.websocket = NULL
                /\ call.error_code =
                      StatedFailureCode(
                          history'.shutdown_errors[Len(history'.shutdown_errors)],
                          history.cancel_errors)
                /\ call.response_status = StatedStatus(history.completions)
                /\ call.header_records = ws_bootstrap.response_headers
                /\ call.num_headers = Len(history.captured)
                /\ \A i \in 1..Len(history.captured) :
                      /\ call.header_records[i].name.len = Len(history.captured[i].name)
                      /\ call.header_records[i].value.len
                            = Len(history.captured[i].value)]_vars

\* The upgrade was refused with status 200 after a header was captured, and
\* the connection then shut down with error code zero: the sticky error,
\* status 200 and the one record were passed.
C18_Witness ==
    /\ history.shutdown_errors = <<0>>
    /\ Len(setup_calls) = 1
    /\ setup_calls[1].handler = "on_http_shutdown"
    /\ setup_calls[1].error_code = AWS_ERROR_HTTP_WEBSOCKET_UPGRADE_FAILURE
    /\ setup_calls[1].response_status = AWS_HTTP_STATUS_200_OK
    /\ Len(setup_calls[1].header_records) = 1

(* ------------------------------------------------------------------ *)
\* C19: once a cancellation has recorded the sticky error, no websocket
\* handler is installed and the setup callback is never invoked with success.
\* (Every cancellation precedes the stream's completion or is part of it, so
\* a handler or a successful setup in a state with the sticky error set came
\* after the cancellation.)
C19_AsStated ==
    ws_bootstrap.setup_error_code # 0
        => /\ websocket.created = 0
           /\ ~SomeSetupSucceeded

(* ------------------------------------------------------------------ *)
\* C20: the bootstrap has released the handshake stream exactly once when
\* the stream has completed (whatever the completion's outcome) and not at
\* all before; it releases nothing when no stream was created.  A step that
\* releases the stream is the completion handler, and when that step reports
\* a successful setup it neither requests the close of the connection nor
\* changes the connection's state.
C20_StreamReleasedOnce ==
    /\ [](handshake_stream.releases =
             (IF handshake_stream.state = "complete" THEN 1 ELSE 0))
    /\ [][handshake_stream'.releases > handshake_stream.releases
            => /\ history'.last_handler = "on_handshake_complete"
               /\ handshake_stream.state = "active"
               /\ handshake_stream'.releases = handshake_stream.releases + 1
               /\ SetupInvokedNow
                    => /\ http_connection'.close_requests
                             = http_connection.close_requests
                       /\ http_connection'.state = "open"
                       /\ http_connection'.releases = 0]_vars

\* The stream completed with an error and was released once; the connection
\* then shut down and the bootstrap was destroyed with no further release.
C20_Witness ==
    /\ Len(history.completions) = 1
    /\ history.completions[1].error_code # 0
    /\ handshake_stream.releases = 1
    /\ ws_state = "destroyed"

(* ------------------------------------------------------------------ *)
\* C21: the request a stream was created for has method GET, the URI's
\* path-and-query as its target and the caller's handshake headers, in order
\* and byte for byte, as they were when aws_websocket_client_connect was
\* called, whatever the caller did to its buffers since; and while the
\* bootstrap lives, its path cursor and each of its header records point
\* into its own request storage.
C21_HandshakeRequestVerbatim ==
    /\ handshake_stream.state # "none"
          => handshake_stream.request =
               [ method       |-> "GET",
                 uri          |-> options.uri.path_and_query,
                 header_array |-> RequestHeaders(options.num_handhake_headers) ]
    /\ (Initiated /\ ws_state = "live")
          => /\ ws_bootstrap.request_path.alloc = ws_bootstrap.request_storage.alloc
             /\ ws_bootstrap.num_request_headers = options.num_handhake_headers
             /\ Len(ws_bootstrap.request_header_array) = options.num_handhake_headers
             /\ \A i \in 1..Len(ws_bootstrap.request_header_array) :
                   /\ ws_bootstrap.request_header_array[i].name.alloc
                         = ws_bootstrap.request_storage.alloc
                   /\ ws_bootstrap.request_header_array[i].value.alloc
                         = ws_bootstrap.request_storage.alloc

\* The caller reused its buffers before the connection was set up, and the
\* request was then issued with two headers and a two-byte path.
C21_Witness ==
    /\ caller_memory = "reused"
    /\ handshake_stream.state = "active"
    /\ options.num_handhake_headers = 2
    /\ handshake_stream.request.uri = <<47, 99>>
    /\ Len(handshake_stream.request.header_array) = 2

(* ------------------------------------------------------------------ *)
\* C22: while the bootstrap lives, its setup callback is set exactly when it
\* stores no websocket; and a shutdown notification finds what the
\* assertions of lines 375 and 403 require: no websocket when the setup
\* callback is still set, a websocket when it is cleared and a shutdown
\* callback is to be invoked.
C22_SetupPendingIffNoHandle ==
    /\ []((Initiated /\ ws_state = "live")
            => (ws_bootstrap.websocket_setup_callback
                  <=> ws_bootstrap.websocket = NULL))
    /\ [][Len(history'.shutdown_errors) > Len(history.shutdown_errors)
            => IF ws_bootstrap.websocket_setup_callback
               THEN ws_bootstrap.websocket = NULL
               ELSE ws_bootstrap.websocket_shutdown_callback
                      => ws_bootstrap.websocket # NULL]_vars

\* The setup succeeded and the connection has not shut down yet: the
\* callback is cleared and the websocket is stored.
C22_Witness ==
    /\ ws_state = "live"
    /\ ~ws_bootstrap.websocket_setup_callback
    /\ ws_bootstrap.websocket # NULL
    /\ ws_bootstrap.websocket_shutdown_callback

(* ------------------------------------------------------------------ *)
\* The setup callback reported a failure and the bootstrap is destroyed.
Terminated ==
    /\ ws_state = "destroyed"
    /\ \E i \in 1..Len(setup_calls) :
          setup_calls[i].websocket = NULL /\ setup_calls[i].error_code # 0

\* C23: with fair collaborators, a call that returned AWS_OP_SUCCESS leads
\* to an invocation of the setup callback, and a cancellation leads to the
\* setup callback having reported a failure and the bootstrap being
\* destroyed.
C23_AsStated ==
    /\ Initiated ~> (setup_calls # <<>>)
    /\ (history.cancel_calls > 0) ~> Terminated

====
